---- MODULE Spec2Model ----
(***************************************************************************)
(* Fuzzy resolution of Terraform AWS provider documentation: the           *)
(* normaliser, the edit distance, the best-match selector, the two         *)
(* resolvers (resource, datasource) and the get-resource-doc /             *)
(* get-datasource-doc branches of the tool-call handler.                   *)
(*                                                                         *)
(* A string is a sequence of one-character strings.  A few fixed texts     *)
(* (error messages, directory constants) are kept as one multi-character   *)
(* chunk: no operation of the model looks inside them.                     *)
(***************************************************************************)
EXTENDS Integers, Sequences, FiniteSets, TLC

\* ------------------------------------------------------------------ bounds
MaxTokens == 3
MaxDocs == 2
MaxList == 2
MaxLev == 3
MaxCandidates == 2

\* ----------------------------------------------------------------- strings
UpperChars == <<"A","B","C","D","E","F","G","H","I","J","K","L","M",
                "N","O","P","Q","R","S","T","U","V","W","X","Y","Z">>
LowerChars == <<"a","b","c","d","e","f","g","h","i","j","k","l","m",
                "n","o","p","q","r","s","t","u","v","w","x","y","z">>
DigitChars == {"0","1","2","3","4","5","6","7","8","9"}
LowerSet == {LowerChars[k] : k \in 1..26}

\* String.prototype.toLowerCase, one character.
ToLowerChar(c) ==
    IF \E k \in 1..26 : UpperChars[k] = c
    THEN LowerChars[CHOOSE k \in 1..26 : UpperChars[k] = c]
    ELSE c

toLowerCase(s) == [k \in 1..Len(s) |-> ToLowerChar(s[k])]

StartsWith(s, p) == Len(s) >= Len(p) /\ SubSeq(s, 1, Len(p)) = p
EndsWith(s, p) == Len(s) >= Len(p) /\ SubSeq(s, Len(s) - Len(p) + 1, Len(s)) = p
DropFirst(s, n) == SubSeq(s, n + 1, Len(s))

RECURSIVE Flatten(_)
Flatten(ss) == IF ss = <<>> THEN <<>> ELSE Head(ss) \o Flatten(Tail(ss))

RECURSIVE SeqsUpTo(_, _)
SeqsUpTo(S, n) ==
    IF n = 0 THEN {<<>>}
    ELSE LET shorter == SeqsUpTo(S, n - 1)
         IN shorter \cup {Append(q, x) : q \in shorter, x \in S}

\* ------------------------------------------------------------ fuzzy-finder
AWS == <<"a","w","s">>
AMAZON == <<"a","m","a","z","o","n">>
Separators == {" ", "_", "-"}

\* .replace(/^(aws|amazon)[ _-]?/i, ""): one vendor token at the very start,
\* then at most one separator.
StripVendorPrefix(s) ==
    LET n == IF StartsWith(s, AWS) THEN 3
             ELSE IF StartsWith(s, AMAZON) THEN 6
             ELSE 0
    IN IF n = 0 THEN s
       ELSE IF Len(s) > n /\ s[n + 1] \in Separators THEN DropFirst(s, n + 1)
       ELSE DropFirst(s, n)

\* .replace(/[^a-z0-9]/g, "")
StripNonAlnum(s) == SelectSeq(s, LAMBDA c : c \in LowerSet \cup DigitChars)

\* Mutant of the normaliser: the vendor token is looked for before the
\* lower-casing, without the i flag.
normalise_CaseSensitivePrefix(input) ==
    StripNonAlnum(toLowerCase(StripVendorPrefix(input)))

normaliseAWSResourceNameOrSubcategory(input) ==
    StripNonAlnum(StripVendorPrefix(toLowerCase(input)))

Min3(x, y, z) ==
    IF x <= y /\ x <= z THEN x ELSE IF y <= z THEN y ELSE z

\* Mutant of LevFill: on equal characters the cell above is taken, not the
\* diagonal one.
RECURSIVE LevFill_AboveOnMatch(_, _, _, _, _)
LevFill_AboveOnMatch(a, b, i, prev, cur) ==
    IF Len(cur) = Len(b) + 1 THEN cur
    ELSE LET j == Len(cur)
             cell == IF a[i] = b[j]
                     THEN prev[j + 1]
                     ELSE Min3(prev[j + 1] + 1, cur[j] + 1, prev[j] + 1)
         IN LevFill_AboveOnMatch(a, b, i, prev, Append(cur, cell))

\* Mutant of LevFill: a deletion costs two.
RECURSIVE LevFill_DeletionTwo(_, _, _, _, _)
LevFill_DeletionTwo(a, b, i, prev, cur) ==
    IF Len(cur) = Len(b) + 1 THEN cur
    ELSE LET j == Len(cur)
             cell == IF a[i] = b[j]
                     THEN prev[j]
                     ELSE Min3(prev[j + 1] + 2, cur[j] + 1, prev[j] + 1)
         IN LevFill_DeletionTwo(a, b, i, prev, Append(cur, cell))

\* Mutant of LevFill: a substitution is not considered.
RECURSIVE LevFill_NoSubstitution(_, _, _, _, _)
LevFill_NoSubstitution(a, b, i, prev, cur) ==
    IF Len(cur) = Len(b) + 1 THEN cur
    ELSE LET j == Len(cur)
             cell == IF a[i] = b[j]
                     THEN prev[j]
                     ELSE Min3(prev[j + 1] + 1, cur[j] + 1, prev[j + 1] + 1)
         IN LevFill_NoSubstitution(a, b, i, prev, Append(cur, cell))

\* The inner loop of levenshtein: row i of the matrix, filled left to right.
\* prev is row i-1; cur holds matrix[i][0 .. Len(cur)-1].
RECURSIVE LevFill(_, _, _, _, _)
LevFill(a, b, i, prev, cur) ==
    IF Len(cur) = Len(b) + 1 THEN cur
    ELSE LET j == Len(cur)
             cell == IF a[i] = b[j]
                     THEN prev[j]
                     ELSE Min3(prev[j + 1] + 1, cur[j] + 1, prev[j] + 1)
         IN LevFill(a, b, i, prev, Append(cur, cell))

\* The outer loop of levenshtein, from row i on.
RECURSIVE LevRows(_, _, _, _)
LevRows(a, b, i, prev) ==
    IF i > Len(a) THEN prev[Len(b) + 1]
    ELSE LevRows(a, b, i + 1, LevFill(a, b, i, prev, <<i>>))

\* Mutant of levenshtein: every row is filled with its index, row 0 too.
levenshtein_RowZero(a, b) == LevRows(a, b, 1, [j \in 1..(Len(b) + 1) |-> 0])

levenshtein(a, b) == LevRows(a, b, 1, [j \in 1..(Len(b) + 1) |-> j - 1])

\* Number.POSITIVE_INFINITY: larger than every distance of the model.
POSITIVE_INFINITY == 1000000

NullMatch == [found |-> FALSE]

\* Mutant of FuzzyLoop: a candidate at an equal distance replaces the best.
RECURSIVE FuzzyLoop_LastWins(_, _, _, _, _)
FuzzyLoop_LastWins(target, candidates, k, minDist, bestIndex) ==
    IF k > Len(candidates) THEN [minDist |-> minDist, bestIndex |-> bestIndex]
    ELSE LET dist == levenshtein(target, candidates[k])
         IN IF dist <= minDist
            THEN FuzzyLoop_LastWins(target, candidates, k + 1, dist, k - 1)
            ELSE FuzzyLoop_LastWins(target, candidates, k + 1, minDist, bestIndex)

\* The loop of findBestFuzzyMatch from candidate k on (k is 1-based here,
\* bestIndex is the code's 0-based index, -1 for none).
RECURSIVE FuzzyLoop(_, _, _, _, _)
FuzzyLoop(target, candidates, k, minDist, bestIndex) ==
    IF k > Len(candidates) THEN [minDist |-> minDist, bestIndex |-> bestIndex]
    ELSE LET dist == levenshtein(target, candidates[k])
         IN IF dist < minDist
            THEN FuzzyLoop(target, candidates, k + 1, dist, k - 1)
            ELSE FuzzyLoop(target, candidates, k + 1, minDist, bestIndex)

\* Mutant of findBestFuzzyMatch: the nearest candidate is returned however
\* far it is.
findBestFuzzyMatch_NoThreshold(target, candidates, threshold) ==
    LET r == FuzzyLoop(target, candidates, 1, POSITIVE_INFINITY, -1)
    IN IF r.bestIndex # -1
       THEN [found |-> TRUE, match |-> candidates[r.bestIndex + 1],
             index |-> r.bestIndex, distance |-> r.minDist]
       ELSE NullMatch

\* Mutant of findBestFuzzyMatch: target and candidates are normalised first.
findBestFuzzyMatch_Normalising(target, candidates, threshold) ==
    LET t == normaliseAWSResourceNameOrSubcategory(target)
        cs == [k \in 1..Len(candidates) |->
                  normaliseAWSResourceNameOrSubcategory(candidates[k])]
        r == FuzzyLoop(t, cs, 1, POSITIVE_INFINITY, -1)
    IN IF r.minDist <= threshold /\ r.bestIndex # -1
       THEN [found |-> TRUE, match |-> cs[r.bestIndex + 1],
             index |-> r.bestIndex, distance |-> r.minDist]
       ELSE NullMatch

\* Mutant of findBestFuzzyMatch: a distance equal to the threshold is no match.
findBestFuzzyMatch_Strict(target, candidates, threshold) ==
    LET r == FuzzyLoop(target, candidates, 1, POSITIVE_INFINITY, -1)
    IN IF r.minDist < threshold /\ r.bestIndex # -1
       THEN [found |-> TRUE, match |-> candidates[r.bestIndex + 1],
             index |-> r.bestIndex, distance |-> r.minDist]
       ELSE NullMatch

findBestFuzzyMatch(target, candidates, threshold) ==
    LET r == FuzzyLoop(target, candidates, 1, POSITIVE_INFINITY, -1)
    IN IF r.minDist <= threshold /\ r.bestIndex # -1
       THEN [found |-> TRUE, match |-> candidates[r.bestIndex + 1],
             index |-> r.bestIndex, distance |-> r.minDist]
       ELSE NullMatch

\* fileName.replace(/^aws[-_]/, "")
removeAwsPrefixFromFileName(fileName) ==
    IF StartsWith(fileName, AWS) /\ Len(fileName) > 3 /\ fileName[4] \in {"-", "_"}
    THEN DropFirst(fileName, 4)
    ELSE fileName

\* -------------------------------------------------------------- constants
\* src/lib/utils/constants.ts is not part of the sources at hand: the three
\* directory constants are opaque chunks (none of them begins with "aws_").
TERRAFORM_AWS_PROVIDER_RESOURCE_DOCS_PATH == <<"$RESOURCE_DOCS_PATH/">>
TERRAFORM_AWS_PROVIDER_DOCS_RESOURCES_LOCAL_DIR == <<"$RESOURCES_LOCAL_DIR">>
TERRAFORM_AWS_PROVIDER_DOCS_DATASOURCES_LOCAL_DIR == <<"$DATASOURCES_LOCAL_DIR">>

EXT == <<".","h","t","m","l",".","m","a","r","k","d","o","w","n">>
ERROR_PREFIX == <<"E","r","r","o","r",":">>
MISSING == <<"(","m","i","s","s","i","n","g",")">>
MALFORMED == <<"(","m","a","l","f","o","r","m","e","d",")">>

None == [has |-> FALSE, val |-> <<>>]
Some(v) == [has |-> TRUE, val |-> v]
\* JavaScript truthiness of an optional string: defined and not empty.
Truthy(o) == o.has /\ o.val # <<>>

\* ------------------------------------------------------------------ state
VARIABLES
    nInput, nOnce, nTwice, npc,   \* the normaliser applied once and twice
    nOther, nRel, nOtherNorm,     \* a second label, how it relates to nInput,
                                  \* and its normalised form
    levA, levB, levC,             \* three strings
    levOut,                       \* the distances computed so far, see LevCalls
    fzTarget, fzCandidates,       \* the arguments of findBestFuzzyMatch
    fzOut, fzpc,                  \* and its return value
    calls,                        \* the resolver calls in flight, each with
                                  \* its own arguments and locals
    toolCall,        \* the CallToolRequest being handled (main.ts)
    listCall,        \* a GitHubAdapter.listIssuesByState call and its locals
    releaseCall,     \* a release tool call with include_issues
    readCall,        \* the ReadResourceRequest being handled
    tool,            \* "get-resource-doc" or "get-datasource-doc"
    dirReadable,     \* whether Deno.readDir of the local docs directory works
    dir,             \* the .html.markdown files of the local docs directory
    args,            \* the validated arguments: aws_name, file_name
    pc,              \* where the handler is
    resolverCalls,   \* invocations of the resolver
    userNorm, resources, candidates, i, j,
    bestMatchIdx, bestScore, bestField,
    resolved,        \* the resolver's return value
    fetchArg,        \* the argument of get...DocFromFileName
    fetchLog,        \* the paths fetched (GitHub / Deno.readTextFile)
    response         \* the handler's content list

svars == <<toolCall, listCall, releaseCall, readCall>>
pvars == <<nOther, nRel, nOtherNorm, levA, levB, levC, levOut,
           fzTarget, fzCandidates, fzOut, fzpc, calls, svars>>
nvars == <<nInput, nOnce, nTwice, npc, pvars>>
rvars == <<userNorm, resources, candidates, i, j, bestMatchIdx, bestScore, bestField>>
hvars == <<tool, dirReadable, dir, args, pc, resolverCalls, resolved, fetchArg,
           fetchLog, response>>
vars == <<nvars, rvars, hvars>>

IsResource == tool = "get-resource-doc"

\* ---------------------------------------------------------- local-docs-api
DocsLocalDir(isRes) ==
    IF isRes THEN TERRAFORM_AWS_PROVIDER_DOCS_RESOURCES_LOCAL_DIR
    ELSE TERRAFORM_AWS_PROVIDER_DOCS_DATASOURCES_LOCAL_DIR

\* One directory entry that passes the .html.markdown filter, with what the
\* lister's regular expressions find in its content:
\*   stem        entry.name without the extension
\*   front       the YAML front matter: malformed, or its string keys
\*   titleLine   the "# Resource: X" / "# Data Source: X" line and the
\*               paragraph after it
\*   headings    the "## ..." lines
\*   argument_names   the `name` bullets of the Argument Reference section
EntryName(f) == f.stem \o EXT

\* The body of the lister's loop: the metadata of one file.
DocMetadata(isRes, f) ==
    LET fromYaml(key) ==
            IF f.front.malformed THEN MALFORMED
            ELSE IF key.has THEN key.val ELSE MISSING
    IN [ id |-> IF f.titleLine.has THEN f.titleLine.val ELSE f.stem,
         subcategory |-> fromYaml(f.front.subcategory),
         page_title |-> fromYaml(f.front.page_title),
         description |-> fromYaml(f.front.description),
         entity |-> IF f.titleLine.has THEN f.titleLine.val ELSE MISSING,
         entity_description |->
             IF f.titleLine.has /\ f.titleLine.para.has
             THEN f.titleLine.para.val ELSE MISSING,
         file_path |-> DocsLocalDir(isRes) \o <<"/">> \o EntryName(f),
         headings |-> f.headings,
         argument_names |-> f.argument_names ]

listLocalDocsWithMetadata(isRes, files) ==
    [k \in 1..Len(files) |-> DocMetadata(isRes, files[k])]

\* ------------------------------------------------------------ the resolver
\* file_path.split("/").pop()
RECURSIVE BaseName(_)
BaseName(p) ==
    IF \E k \in 1..Len(p) : p[k] = "/"
    THEN BaseName(DropFirst(p, CHOOSE k \in 1..Len(p) : p[k] = "/"))
    ELSE p

\* fileName.replace(/\.html\.markdown$/, "")
StripExt(s) == IF EndsWith(s, EXT) THEN SubSeq(s, 1, Len(s) - Len(EXT)) ELSE s

NormOrEmpty(s) == IF s # <<>> THEN normaliseAWSResourceNameOrSubcategory(s) ELSE <<>>

MapNormalise(ss) == [k \in 1..Len(ss) |-> normaliseAWSResourceNameOrSubcategory(ss[k])]

\* The candidate strings of one document, in the order of the returned array.
BuildCandidates(isRes, r) ==
    << normaliseAWSResourceNameOrSubcategory(r.subcategory),
       normaliseAWSResourceNameOrSubcategory(StripExt(BaseName(r.file_path))),
       NormOrEmpty(r.page_title),
       NormOrEmpty(r.description),
       NormOrEmpty(IF isRes THEN r.entity_description ELSE r.entity) >>
    \o MapNormalise(r.headings) \o MapNormalise(r.argument_names)

threshold == 3

fieldNames(isRes) ==
    << <<"subcategory">>, <<"fileName">>, <<"pageTitle">>, <<"description">>,
       IF isRes THEN <<"resource_description">> ELSE <<"datasource">>,
       <<"heading">>, <<"argument_name">> >>

\* fieldNames[j] || `extra_${j}`, for the 1-based position p = j + 1.
FieldLabel(isRes, p) ==
    IF p <= Len(fieldNames(isRes)) THEN fieldNames(isRes)[p] ELSE <<"extra_", p - 1>>

\* findBestFuzzyMatch(userNorm, [candidate], threshold)?.distance ?? Infinity
Score(norm, candidate) ==
    LET m == findBestFuzzyMatch(norm, <<candidate>>, threshold)
    IN IF m.found THEN m.distance ELSE POSITIVE_INFINITY

NoResult == [type |-> "none", text |-> <<>>]
Text(t) == [type |-> "text", text |-> t]

NoMatchText(isRes, name) ==
    ERROR_PREFIX
    \o (IF isRes THEN <<" No matching AWS resource documentation found for '">>
        ELSE <<" No matching AWS datasource documentation found for '">>)
    \o name \o <<"'.">>

\* What the resolver returns once the loops are over.
ResolverResult(isRes, name, docs, idx) ==
    IF idx = -1 THEN Text(NoMatchText(isRes, name))
    ELSE IF docs[idx + 1].file_path = <<>>
    THEN Text(ERROR_PREFIX
              \o (IF isRes THEN <<" Resource found but file_path is missing for '">>
                  ELSE <<" Datasource found but file_path is missing for '">>)
              \o name \o <<"'.">>)
    ELSE IF isRes THEN Text(docs[idx + 1].file_path)
    ELSE Text(IF BaseName(docs[idx + 1].file_path) # <<>>
              THEN BaseName(docs[idx + 1].file_path)
              ELSE docs[idx + 1].file_path)

\* --------------------------------------------- get...DocFromFileName
WithExt(p) == IF EndsWith(p, EXT) THEN p ELSE p \o EXT

FetchPath(isRes, fileName) ==
    IF isRes
    THEN WithExt(TERRAFORM_AWS_PROVIDER_RESOURCE_DOCS_PATH
                 \o removeAwsPrefixFromFileName(fileName))
    ELSE WithExt(TERRAFORM_AWS_PROVIDER_DOCS_DATASOURCES_LOCAL_DIR \o <<"/">>
                 \o removeAwsPrefixFromFileName(fileName))

FetchErrorText(isRes, path) ==
    ERROR_PREFIX \o <<" Could not fetch file '">> \o path
    \o (IF isRes THEN <<"' from GitHub: ">> ELSE <<"': ">>) \o <<"$err">>

Formatted(path) == Text(<<"$formatted:">> \o path)

\* ---------------------------------------------------------------- inputs
N_S3 == <<"s","3","_","b","u","c","k","e","t">>
N_SQS == <<"s","q","s","_","q","u","e","u","e">>
N_EC2 == <<"e","c","2","_","a","m","i">>
SUB_S3 == <<"S","3">>
DESC == <<"A"," ","b","u","c","k","e","t",".">>
PARA == <<"M","a","n","a","g","e","s"," ","i","t",".">>
H_IMPORT == <<"I","m","p","o","r","t">>
H_TAGS == <<"T","a","g","s">>
A_BUCKET == <<"b","u","c","k","e","t">>
Q_TYPO == <<"s","3"," ","b","u","k","e","t">>
Q_BUCKE == <<"b","u","c","k","e">>
Q_BUCK == <<"b","u","c","k">>
Q_MISSING == <<"m","i","s","s","i","n","g">>

Stems == {N_S3, N_SQS, N_EC2}
Queries == {Q_TYPO, Q_BUCKE, Q_BUCK, Q_MISSING}

FrontMalformed ==
    [malformed |-> TRUE, subcategory |-> None, page_title |-> None, description |-> None]
FrontNone ==
    [malformed |-> FALSE, subcategory |-> None, page_title |-> None, description |-> None]
FrontFull(stem) ==
    [malformed |-> FALSE, subcategory |-> Some(SUB_S3),
     page_title |-> Some(<<"A","W","S",":"," ","a","w","s","_">> \o stem),
     description |-> Some(DESC)]
FrontPartial ==
    [malformed |-> FALSE, subcategory |-> Some(SUB_S3), page_title |-> None,
     description |-> Some(<<>>)]

TitleLine(stem) == [has |-> TRUE, val |-> <<"a","w","s","_">> \o stem, para |-> Some(PARA)]
NoTitleLine == [has |-> FALSE, val |-> <<>>, para |-> None]

\* The files of a directory of several documents: with or without front
\* matter, with no heading and no argument or with one of each.
PlainFilesOf(s) ==
    { [stem |-> s, front |-> fr, titleLine |-> TitleLine(s),
       headings |-> l[1], argument_names |-> l[2]] :
        fr \in {FrontNone, FrontFull(s)},
        l \in { <<<<>>, <<>>>>, <<<<H_TAGS>>, <<A_BUCKET>>>> } }

PlainFiles == UNION {PlainFilesOf(s) : s \in Stems}

\* The files of a directory of one document: every shape of front matter,
\* with or without title line, up to MaxList headings and argument names.
RichFiles ==
    { [stem |-> N_S3, front |-> fr, titleLine |-> tl,
       headings |-> hs, argument_names |-> as] :
        fr \in {FrontMalformed, FrontNone, FrontFull(N_S3), FrontPartial},
        tl \in {TitleLine(N_S3), NoTitleLine},
        hs \in SeqsUpTo({H_IMPORT, H_TAGS}, MaxList),
        as \in SeqsUpTo({A_BUCKET}, MaxList) }

\* Deno.readDir yields each entry once: the names of a directory differ.
DistinctStems(files) ==
    \A a, b \in 1..Len(files) : a # b => files[a].stem # files[b].stem

Directories ==
    {d \in SeqsUpTo(PlainFiles, MaxDocs) : DistinctStems(d)}

\* aws_resource / aws_datasource and file_name as the schema lets them through.
ArgsPool ==
    { [aws_name |-> a, file_name |-> None] :
        a \in {None, Some(<<>>)} \cup {Some(q) : q \in Queries} }
    \cup
    { [aws_name |-> a, file_name |-> Some(fn)] :
        a \in {None, Some(Q_BUCKE)},
        fn \in {N_S3 \o EXT, <<"a","w","s","_">> \o N_SQS} }
    \cup
    { [aws_name |-> a, file_name |-> Some(<<>>)] : a \in {None, Some(<<>>)} }

Tools == {"get-resource-doc", "get-datasource-doc"}

NormOff ==
    /\ nInput = <<>>
    /\ nOnce = <<>>
    /\ nTwice = <<>>
    /\ npc = "off"

LabelIdle ==
    /\ nOther = <<>>
    /\ nRel = "none"
    /\ nOtherNorm = <<>>

LevIdle ==
    /\ levA = <<>>
    /\ levB = <<>>
    /\ levC = <<>>
    /\ levOut = <<>>

FuzzyIdle ==
    /\ fzTarget = <<>>
    /\ fzCandidates = <<>>
    /\ fzOut = NullMatch
    /\ fzpc = "off"

CallsIdle == calls = <<>>

ToolIdle == toolCall = [pc |-> "off"]

ListIdle == listCall = [pc |-> "off"]

ReleaseIdle == releaseCall = [pc |-> "off"]

ReadIdle == readCall = [pc |-> "off"]

ServerIdle ==
    /\ ToolIdle
    /\ ListIdle
    /\ ReleaseIdle
    /\ ReadIdle

NormIdle ==
    /\ NormOff
    /\ LabelIdle
    /\ LevIdle
    /\ FuzzyIdle
    /\ CallsIdle
    /\ ServerIdle

\* The handler at its entry, before any local is set.
HandlerFresh ==
    /\ tool \in Tools
    /\ pc = "request"
    /\ resolverCalls = 0
    /\ userNorm = <<>>
    /\ resources = <<>>
    /\ candidates = <<>>
    /\ i = 0
    /\ j = 0
    /\ bestMatchIdx = -1
    /\ bestScore = POSITIVE_INFINITY
    /\ bestField = <<>>
    /\ resolved = NoResult
    /\ fetchArg = <<>>
    /\ fetchLog = <<>>
    /\ response = <<>>

HandlerStart ==
    /\ args \in ArgsPool
    /\ HandlerFresh

Init ==
    /\ NormIdle
    /\ HandlerStart
    /\ \/ dirReadable = TRUE /\ dir \in Directories
       \/ dirReadable = FALSE /\ dir = <<>>

InitDoc ==
    /\ NormIdle
    /\ HandlerStart
    /\ dirReadable = TRUE
    /\ \E f \in RichFiles : dir = <<f>>

\* --------------------------------------------------------------- handler
\* Mutant of HandleGetDoc: the free-text name is looked at first.
HandleGetDoc_NameFirst ==
    /\ pc = "request"
    /\ IF Truthy(args.aws_name)
       THEN /\ pc' = "resolve"
            /\ UNCHANGED <<fetchArg, response>>
       ELSE IF Truthy(args.file_name)
       THEN /\ pc' = "fetch"
            /\ fetchArg' = args.file_name.val
            /\ UNCHANGED response
       ELSE /\ pc' = "done"
            /\ response' = << Text(ERROR_PREFIX) >>
            /\ UNCHANGED fetchArg
    /\ UNCHANGED <<nvars, rvars, tool, dirReadable, dir, args, resolverCalls,
                   resolved, fetchLog>>

\* Mutant of HandleGetDoc: the free-text name is passed on whenever it is
\* defined, the empty string included.
HandleGetDoc_DefinedName ==
    /\ pc = "request"
    /\ IF Truthy(args.file_name)
       THEN /\ pc' = "fetch"
            /\ fetchArg' = args.file_name.val
            /\ UNCHANGED response
       ELSE IF args.aws_name.has
       THEN /\ pc' = "resolve"
            /\ UNCHANGED <<fetchArg, response>>
       ELSE /\ pc' = "done"
            /\ response' =
                 << Text(ERROR_PREFIX \o
                      (IF IsResource
                       THEN <<" file_name or aws_resource must be provided.">>
                       ELSE <<" file_name or aws_datasource must be provided.">>)) >>
            /\ UNCHANGED fetchArg
    /\ UNCHANGED <<nvars, rvars, tool, dirReadable, dir, args, resolverCalls,
                   resolved, fetchLog>>

\* The get-resource-doc / get-datasource-doc case after safeParse: the
\* exact file name first, then the free-text name, else an error.
HandleGetDoc ==
    /\ pc = "request"
    /\ IF Truthy(args.file_name)
       THEN /\ pc' = "fetch"
            /\ fetchArg' = args.file_name.val
            /\ UNCHANGED response
       ELSE IF Truthy(args.aws_name)
       THEN /\ pc' = "resolve"
            /\ UNCHANGED <<fetchArg, response>>
       ELSE /\ pc' = "done"
            /\ response' =
                 << Text(ERROR_PREFIX \o
                      (IF IsResource
                       THEN <<" file_name or aws_resource must be provided.">>
                       ELSE <<" file_name or aws_datasource must be provided.">>)) >>
            /\ UNCHANGED fetchArg
    /\ UNCHANGED <<nvars, rvars, tool, dirReadable, dir, args, resolverCalls,
                   resolved, fetchLog>>

\* The resolver up to its loops: the guard, the normalised query, the
\* listing and the candidates.  A listing that throws ends in the handler's
\* catch.
ResolverEnter ==
    /\ pc = "resolve"
    /\ resolverCalls' = resolverCalls + 1
    /\ IF ~Truthy(args.aws_name)
       THEN /\ resolved' =
                 Text(ERROR_PREFIX \o
                      (IF IsResource THEN <<" awsResourceName must be provided.">>
                       ELSE <<" awsDatasourceName must be provided.">>))
            /\ pc' = "resolved"
            /\ UNCHANGED <<rvars, response>>
       ELSE IF ~dirReadable
       THEN /\ pc' = "done"
            /\ response' = << Text(ERROR_PREFIX \o <<" ", "$err">>) >>
            /\ UNCHANGED <<rvars, resolved>>
       ELSE /\ userNorm' = normaliseAWSResourceNameOrSubcategory(args.aws_name.val)
            /\ resources' = listLocalDocsWithMetadata(IsResource, dir)
            /\ candidates' = [k \in 1..Len(dir) |->
                                BuildCandidates(IsResource, resources'[k])]
            /\ i' = 1
            /\ j' = 1
            /\ bestMatchIdx' = -1
            /\ bestScore' = POSITIVE_INFINITY
            /\ bestField' = <<>>
            /\ pc' = "scan"
            /\ UNCHANGED <<resolved, response>>
    /\ UNCHANGED <<nvars, tool, dirReadable, dir, args, fetchArg, fetchLog>>

\* Mutant of ScanUpdate: an empty candidate is scored like any other.
ScanUpdate_NoSkip(isRes, norm, candidate, d, p, best) ==
    LET score == Score(norm, candidate)
    IN IF score < best.score
       THEN [idx |-> d - 1, score |-> score, field |-> FieldLabel(isRes, p)]
       ELSE best

\* Mutant of ScanUpdate: the first candidate within the threshold is kept.
ScanUpdate_FirstHit(isRes, norm, candidate, d, p, best) ==
    IF candidate = <<>> THEN best
    ELSE LET score == Score(norm, candidate)
         IN IF score < best.score /\ best.idx = -1
            THEN [idx |-> d - 1, score |-> score, field |-> FieldLabel(isRes, p)]
            ELSE best

\* Mutant of ScanUpdate: a candidate at an equal distance replaces the best.
ScanUpdate_LastWins(isRes, norm, candidate, d, p, best) ==
    IF candidate = <<>> THEN best
    ELSE LET score == Score(norm, candidate)
         IN IF score <= best.score /\ score < POSITIVE_INFINITY
            THEN [idx |-> d - 1, score |-> score, field |-> FieldLabel(isRes, p)]
            ELSE best

\* Mutant of ScanUpdate: the datasource resolver lets an equal distance
\* replace the best.
ScanUpdate_DatasourceLastWins(isRes, norm, candidate, d, p, best) ==
    IF candidate = <<>> THEN best
    ELSE LET score == Score(norm, candidate)
         IN IF score < best.score \/ (~isRes /\ score = best.score /\ best.idx # -1)
            THEN [idx |-> d - 1, score |-> score, field |-> FieldLabel(isRes, p)]
            ELSE best

\* What one turn of the inner loop does to (bestMatchIdx, bestScore, bestField)
\* for the candidate at document d, position p (both 1-based).
ScanUpdate(isRes, norm, candidate, d, p, best) ==
    IF candidate = <<>> THEN best
    ELSE LET score == Score(norm, candidate)
         IN IF score < best.score
            THEN [idx |-> d - 1, score |-> score, field |-> FieldLabel(isRes, p)]
            ELSE best

\* One turn of the inner loop, and the loop counters after it.
ScanStep ==
    /\ pc = "scan"
    /\ i <= Len(candidates)
    /\ LET b == ScanUpdate(IsResource, userNorm, candidates[i][j], i, j,
                           [idx |-> bestMatchIdx, score |-> bestScore,
                            field |-> bestField])
       IN /\ bestMatchIdx' = b.idx
          /\ bestScore' = b.score
          /\ bestField' = b.field
    /\ IF j < Len(candidates[i])
       THEN j' = j + 1 /\ i' = i
       ELSE j' = 1 /\ i' = i + 1
    /\ UNCHANGED <<nvars, hvars, userNorm, resources, candidates>>

\* After the loops: the resolver's return value.
ResolverReturn ==
    /\ pc = "scan"
    /\ i > Len(candidates)
    /\ resolved' = ResolverResult(IsResource, args.aws_name.val, resources, bestMatchIdx)
    /\ pc' = "resolved"
    /\ UNCHANGED <<nvars, rvars, tool, dirReadable, dir, args, resolverCalls,
                   fetchArg, fetchLog, response>>

\* Mutant of HandleResolved: every text is taken for a file to fetch.
HandleResolved_AlwaysFetch ==
    /\ pc = "resolved"
    /\ fetchArg' = resolved.text
    /\ pc' = "fetch"
    /\ UNCHANGED <<nvars, rvars, tool, dirReadable, dir, args, resolverCalls,
                   resolved, fetchLog, response>>

\* The handler with the resolver's text: an "Error:" text is the answer,
\* any other text is the file to fetch.
HandleResolved ==
    /\ pc = "resolved"
    /\ IF StartsWith(resolved.text, ERROR_PREFIX)
       THEN /\ response' = <<resolved>>
            /\ pc' = "done"
            /\ UNCHANGED fetchArg
       ELSE /\ fetchArg' = resolved.text
            /\ pc' = "fetch"
            /\ UNCHANGED response
    /\ UNCHANGED <<nvars, rvars, tool, dirReadable, dir, args, resolverCalls,
                   resolved, fetchLog>>

\* Whether the datasource file read by Deno.readTextFile is there.
LocalFileExists(path) ==
    \E k \in 1..Len(dir) :
        TERRAFORM_AWS_PROVIDER_DOCS_DATASOURCES_LOCAL_DIR \o <<"/">> \o EntryName(dir[k]) = path

\* getResourceDocFromFileName / getDatasourceDocFromFileName and the
\* handler's answer: the formatted document, or the fetch error as text.
\* A resource is fetched from GitHub, which answers or fails; a datasource
\* is read from the local directory.
FetchDoc ==
    /\ pc = "fetch"
    /\ LET path == FetchPath(IsResource, fetchArg)
       IN /\ fetchLog' = Append(fetchLog, path)
          /\ \E ok \in (IF IsResource THEN BOOLEAN ELSE {LocalFileExists(path)}) :
                response' = IF ok THEN <<Formatted(path)>>
                            ELSE <<Text(FetchErrorText(IsResource, path))>>
    /\ pc' = "done"
    /\ UNCHANGED <<nvars, rvars, tool, dirReadable, dir, args, resolverCalls,
                   resolved, fetchArg>>

Next ==
    \/ HandleGetDoc
    \/ ResolverEnter
    \/ ScanStep
    \/ ResolverReturn
    \/ HandleResolved
    \/ FetchDoc

Spec == Init /\ [][Next]_vars

SpecDoc == InitDoc /\ [][Next]_vars

\* Documents with fields that normalise to the empty string (a subcategory
\* "AWS", an empty page title, a description and a heading of dashes), and
\* names that normalise to it.
Q_DASH == <<"-">>
Q_VENDOR == <<"a","w","s","_">>
SUB_AWS == <<"A","W","S">>
H_DASHES == <<"-","-","-">>
H_ID == <<"I","d">>

FrontVendor ==
    [malformed |-> FALSE, subcategory |-> Some(SUB_AWS), page_title |-> Some(<<>>),
     description |-> Some(H_DASHES)]

SkipFiles ==
    { [stem |-> N_S3, front |-> fr, titleLine |-> tl,
       headings |-> hs, argument_names |-> <<>>] :
        fr \in {FrontVendor, FrontPartial, FrontFull(N_S3)},
        tl \in {TitleLine(N_S3), NoTitleLine},
        hs \in SeqsUpTo({H_DASHES, H_ID}, MaxList) }

SkipArgs ==
    { [aws_name |-> Some(q), file_name |-> None] :
        q \in {Q_DASH, Q_VENDOR, H_ID, Q_BUCK} }

InitSkip ==
    /\ NormIdle
    /\ args \in SkipArgs
    /\ HandlerFresh
    /\ dirReadable = TRUE
    /\ \E f \in SkipFiles : dir = <<f>>

SpecSkip == InitSkip /\ [][Next]_vars

\* ------------------------------------------------- the normaliser, applied
\* Labels are built from these pieces.
NormTokens == {AWS, AMAZON, <<"A","W","S">>, <<"-">>, <<" ">>, <<"s","3">>, <<"(">>}

NormInputs == {Flatten(ts) : ts \in SeqsUpTo(NormTokens, MaxTokens)}

HandlerOff ==
    /\ tool = "get-resource-doc"
    /\ dirReadable = TRUE
    /\ dir = <<>>
    /\ args = [aws_name |-> None, file_name |-> None]
    /\ pc = "off"
    /\ resolverCalls = 0
    /\ userNorm = <<>>
    /\ resources = <<>>
    /\ candidates = <<>>
    /\ i = 0
    /\ j = 0
    /\ bestMatchIdx = -1
    /\ bestScore = POSITIVE_INFINITY
    /\ bestField = <<>>
    /\ resolved = NoResult
    /\ fetchArg = <<>>
    /\ fetchLog = <<>>
    /\ response = <<>>

HandlerIdle ==
    /\ HandlerOff
    /\ ServerIdle

InitNorm ==
    /\ nInput \in NormInputs
    /\ nOnce = <<>>
    /\ nTwice = <<>>
    /\ npc = "input"
    /\ LabelIdle
    /\ LevIdle
    /\ FuzzyIdle
    /\ CallsIdle
    /\ HandlerIdle

NormaliseOnce ==
    /\ npc = "input"
    /\ nOnce' = normaliseAWSResourceNameOrSubcategory(nInput)
    /\ npc' = "once"
    /\ UNCHANGED <<nInput, nTwice, pvars, rvars, hvars>>

NormaliseTwice ==
    /\ npc = "once"
    /\ nTwice' = normaliseAWSResourceNameOrSubcategory(nOnce)
    /\ npc' = "twice"
    /\ UNCHANGED <<nInput, nOnce, pvars, rvars, hvars>>

NextNorm == NormaliseOnce \/ NormaliseTwice

SpecNorm == InitNorm /\ [][NextNorm]_vars

\* --------------------------------------- the normaliser, on related labels
ToUpperChar(ch) ==
    IF \E k \in 1..26 : LowerChars[k] = ch
    THEN UpperChars[CHOOSE k \in 1..26 : LowerChars[k] = ch]
    ELSE ch

toUpperCase(s) == [k \in 1..Len(s) |-> ToUpperChar(s[k])]

\* Vendor prefixes as a label may carry them.
LabelPrefixes ==
    { AWS, <<"A","W","S"," ">>, <<"A","m","a","z","o","n"," ">>,
      AMAZON \o <<"-">>, toUpperCase(AMAZON) \o <<"_">> }

\* The labels related to label s: the same letters in another case, or s
\* behind a vendor prefix.
RelatedLabels(s) ==
    {<<"case", v>> : v \in {toUpperCase(s), toLowerCase(s)} \ {s}}
    \cup {<<"prefix", pre \o s>> : pre \in LabelPrefixes}

InitLabel ==
    /\ nInput \in NormInputs
    /\ \E r \in RelatedLabels(nInput) : nRel = r[1] /\ nOther = r[2]
    /\ nOnce = <<>>
    /\ nTwice = <<>>
    /\ nOtherNorm = <<>>
    /\ npc = "input"
    /\ LevIdle
    /\ FuzzyIdle
    /\ CallsIdle
    /\ HandlerIdle

NormaliseOther ==
    /\ npc = "once"
    /\ nOtherNorm' = normaliseAWSResourceNameOrSubcategory(nOther)
    /\ npc' = "other"
    /\ UNCHANGED <<nInput, nOnce, nTwice, nOther, nRel, levA, levB, levC, levOut,
                   fzTarget, fzCandidates, fzOut, fzpc, calls, svars,
                   rvars, hvars>>

NextLabel == NormaliseOnce \/ NormaliseOther

SpecLabel == InitLabel /\ [][NextLabel]_vars

\* ------------------------------------------------- levenshtein, applied
LevAlphabet == {"a", "b"}

LevStrings == SeqsUpTo(LevAlphabet, MaxLev)

\* The calls made on the three strings, in order: the k-th entry of levOut
\* is the distance of the k-th pair.
LevCalls ==
    << <<levA, levB>>, <<levB, levA>>, <<levB, levC>>, <<levA, levC>>,
       <<levA, levA>>, <<<<>>, levA>>, <<levA, <<>>>> >>

InitLev ==
    /\ levA \in LevStrings
    /\ levB \in LevStrings
    /\ levC \in LevStrings
    /\ levOut = <<>>
    /\ NormOff
    /\ LabelIdle
    /\ FuzzyIdle
    /\ CallsIdle
    /\ HandlerIdle

LevenshteinCall ==
    /\ Len(levOut) < Len(LevCalls)
    /\ LET call == LevCalls[Len(levOut) + 1]
       IN levOut' = Append(levOut, levenshtein(call[1], call[2]))
    /\ UNCHANGED <<nInput, nOnce, nTwice, npc, nOther, nRel, nOtherNorm,
                   levA, levB, levC, fzTarget, fzCandidates, fzOut, fzpc, calls,
                   svars, rvars, hvars>>

NextLev == LevenshteinCall

SpecLev == InitLev /\ [][NextLev]_vars

\* -------------------------------------------- findBestFuzzyMatch, applied
F_AB == <<"a","b">>
F_AB_UPPER == <<"A","B">>
F_AWS_AB == <<"a","w","s","-","a","b">>
F_ABCDE == <<"a","b","c","d","e">>
F_ABCDEF == <<"a","b","c","d","e","f">>
F_ABCDEFG == <<"a","b","c","d","e","f","g">>
F_XYZ == <<"x","y","z">>

FuzzyTargets == {F_AB, F_AB_UPPER, F_XYZ}

FuzzyCandidatePool ==
    {<<>>, F_AB, F_AB_UPPER, F_AWS_AB, F_ABCDE, F_ABCDEF, F_ABCDEFG, F_XYZ}

InitFuzzy ==
    /\ fzTarget \in FuzzyTargets
    /\ fzCandidates \in SeqsUpTo(FuzzyCandidatePool, MaxCandidates)
    /\ fzOut = NullMatch
    /\ fzpc = "call"
    /\ NormOff
    /\ LabelIdle
    /\ LevIdle
    /\ CallsIdle
    /\ HandlerIdle

FindBestFuzzyMatch ==
    /\ fzpc = "call"
    /\ fzOut' = findBestFuzzyMatch(fzTarget, fzCandidates, threshold)
    /\ fzpc' = "returned"
    /\ UNCHANGED <<nInput, nOnce, nTwice, npc, nOther, nRel, nOtherNorm,
                   levA, levB, levC, levOut, fzTarget, fzCandidates, calls,
                   svars, rvars, hvars>>

NextFuzzy == FindBestFuzzyMatch

SpecFuzzy == InitFuzzy /\ [][NextFuzzy]_vars

\* ------------------------------------------- resolver calls in flight
\* The loops of the resolver from document di, position pj on: they hold no
\* await, so a call runs them in one piece.
RECURSIVE ScanFrom(_, _, _, _, _, _)
ScanFrom(isRes, norm, cands, di, pj, best) ==
    IF di > Len(cands) THEN best
    ELSE IF pj > Len(cands[di]) THEN ScanFrom(isRes, norm, cands, di + 1, 1, best)
    ELSE ScanFrom(isRes, norm, cands, di, pj + 1,
                  ScanUpdate(isRes, norm, cands[di][pj], di, pj, best))

\* The resolver after its await, up to the end of the loops: the candidates
\* and (bestMatchIdx, bestScore, bestField).
BestAfterListing(isRes, norm, docs) ==
    LET cands == [k \in 1..Len(docs) |-> BuildCandidates(isRes, docs[k])]
    IN ScanFrom(isRes, norm, cands, 1, 1,
                [idx |-> -1, score |-> POSITIVE_INFINITY, field |-> <<>>])

\* The resolver after its await: candidates, loops, return value.
ResolveAfterListing(isRes, name, norm, docs) ==
    ResolverResult(isRes, name, docs, BestAfterListing(isRes, norm, docs).idx)

NameMissingText(isRes) ==
    Text(ERROR_PREFIX \o (IF isRes THEN <<" awsResourceName must be provided.">>
                          ELSE <<" awsDatasourceName must be provided.">>))

\* Mutant of ListerPush: results is one array of the module, shared by the
\* listers in flight.
ListerPush_SharedResults(cs, p, meta) ==
    [q \in DOMAIN cs |->
        IF cs[q].pc = "listing" THEN [cs[q] EXCEPT !.results = Append(@, meta)]
        ELSE cs[q]]

\* results.push({...}) of the lister of call p.
ListerPush(cs, p, meta) == [cs EXCEPT ![p].results = Append(@, meta)]

Callers == {1, 2}

ConcFiles ==
    { [stem |-> st, front |-> FrontFull(st), titleLine |-> TitleLine(st),
       headings |-> <<>>, argument_names |-> <<>>] : st \in {N_S3, N_SQS} }

ConcDirectories == {d \in SeqsUpTo(ConcFiles, MaxDocs) : DistinctStems(d)}

\* A call not yet started: its resolver, its argument, and the files its
\* lister will find in the directory.
NewCalls ==
    { [isRes |-> r, name |-> n, files |-> fs, pc |-> "start", userNorm |-> <<>>,
       next |-> 1, results |-> <<>>, bestMatchIdx |-> -1, out |-> NoResult] :
        r \in BOOLEAN, n \in {<<>>, Q_TYPO, Q_BUCKE}, fs \in ConcDirectories }

InitCalls ==
    /\ calls \in [Callers -> NewCalls]
    /\ NormOff
    /\ LabelIdle
    /\ LevIdle
    /\ FuzzyIdle
    /\ HandlerIdle

CallUnchanged ==
    UNCHANGED <<nInput, nOnce, nTwice, npc, nOther, nRel, nOtherNorm,
                levA, levB, levC, levOut, fzTarget, fzCandidates, fzOut, fzpc,
                svars, rvars, hvars>>

\* The resolver of call p up to its await: the guard, the normalised name,
\* the lister started.
CallStart(p) ==
    /\ calls[p].pc = "start"
    /\ LET c == calls[p]
       IN calls' = [calls EXCEPT ![p] =
                       IF c.name = <<>>
                       THEN [c EXCEPT !.out = NameMissingText(c.isRes), !.pc = "returned"]
                       ELSE [c EXCEPT
                               !.userNorm = normaliseAWSResourceNameOrSubcategory(c.name),
                               !.pc = "listing"]]
    /\ CallUnchanged

\* One turn of the lister's loop in call p: the next entry is read (an
\* await) and its metadata pushed.
ListerStep(p) ==
    /\ calls[p].pc = "listing"
    /\ calls[p].next <= Len(calls[p].files)
    /\ calls' = [ListerPush(calls, p, DocMetadata(calls[p].isRes,
                                                  calls[p].files[calls[p].next]))
                    EXCEPT ![p].next = @ + 1]
    /\ CallUnchanged

\* The lister of call p returns and the resolver runs to its return.
CallFinish(p) ==
    /\ calls[p].pc = "listing"
    /\ calls[p].next > Len(calls[p].files)
    /\ LET c == calls[p]
           best == BestAfterListing(c.isRes, c.userNorm, c.results)
       IN calls' = [calls EXCEPT ![p] =
                       [c EXCEPT !.bestMatchIdx = best.idx,
                                 !.out = ResolverResult(c.isRes, c.name, c.results, best.idx),
                                 !.pc = "returned"]]
    /\ CallUnchanged

NextCalls == \E p \in Callers : CallStart(p) \/ ListerStep(p) \/ CallFinish(p)

SpecCalls == InitCalls /\ [][NextCalls]_vars

\* ------------------------------------- the two resolvers, side by side
Q_MANAGE == <<"m","a","n","a","g","e","s">>

\* Title lines: a title and a paragraph, a paragraph repeating the title, a
\* title that reads like a paragraph, none.
TwinTitles(st) ==
    { TitleLine(st),
      [has |-> TRUE, val |-> <<"a","w","s","_">> \o st,
       para |-> Some(<<"a","w","s","_">> \o st)],
      [has |-> TRUE, val |-> PARA, para |-> None],
      NoTitleLine }

TwinFiles(st) ==
    { [stem |-> st, front |-> FrontFull(st), titleLine |-> tl,
       headings |-> <<>>, argument_names |-> <<>>] : tl \in TwinTitles(st) }

\* The directories with the files of the given stems, in that order.
RECURSIVE TwinDirectories(_)
TwinDirectories(stems) ==
    IF stems = <<>> THEN {<<>>}
    ELSE {<<f>> \o rest : f \in TwinFiles(Head(stems)), rest \in TwinDirectories(Tail(stems))}

\* Call 1 is the resource resolver, call 2 the datasource resolver, on one
\* name; their directories hold files of the same names.
InitTwin ==
    /\ \E stems \in {d \in SeqsUpTo({N_S3, N_SQS}, MaxDocs) :
                          \A x, y \in 1..Len(d) : x # y => d[x] # d[y]} :
       \E n \in {Q_TYPO, Q_BUCKE, Q_MANAGE} :
       \E fr \in TwinDirectories(stems), fd \in TwinDirectories(stems) :
          calls = [p \in Callers |->
                     [isRes |-> p = 1, name |-> n, files |-> IF p = 1 THEN fr ELSE fd,
                      pc |-> "start", userNorm |-> <<>>, next |-> 1, results |-> <<>>,
                      bestMatchIdx |-> -1, out |-> NoResult]]
    /\ NormOff
    /\ LabelIdle
    /\ LevIdle
    /\ FuzzyIdle
    /\ HandlerIdle

\* The resource resolver runs to its return, then the datasource resolver.
NextTwin ==
    \/ CallStart(1)
    \/ ListerStep(1)
    \/ CallFinish(1)
    \/ calls[1].pc = "returned" /\ CallStart(2)
    \/ calls[1].pc = "returned" /\ ListerStep(2)
    \/ calls[1].pc = "returned" /\ CallFinish(2)

SpecTwin == InitTwin /\ [][NextTwin]_vars

\* ------------------------------------------------------- the tool handler
\* The CallToolRequest handler of main.ts: the token check, the switch on
\* the tool name, the schema validation of each case, the awaited back-end
\* calls of the case and its catch clause.
GitHubTools ==
    {"get-open-issues", "get-issue", "list-all-releases", "get-release-by-tag",
     "get-latest-release"}

LocalDocsTools == {"list-resources", "list-datasources"}

DocTools == {"get-resource-doc", "get-datasource-doc"}

KnownTools == GitHubTools \cup LocalDocsTools \cup DocTools

\* Names a client may send: the nine tools, and three the switch has no case
\* for.
ToolNamePool == KnownTools \cup {"get-all-open-issues", "GET-ISSUE", ""}

\* request.params.arguments: left out, {}, an object holding the fields of
\* the tool with values of the declared types, the same fields with values
\* of other types.
ArgumentPool == {"undefined", "empty", "typed", "mistyped"}

\* The environment's token: set and well formed, not set, set to a value
\* GitHubTokenSchema rejects.
TokenPool == {"valid", "missing", "invalid"}

TokenThrows(token) == token # "valid"

TokenMessage(token) ==
    IF token = "missing" THEN "GitHub token is not set in the environment"
    ELSE "GitHub token validation failed"

\* <TOOL>_ARGS_SCHEMA.safeParse(toolArgs).success: a z.object rejects what
\* is not an object and a field of the wrong type, requires issueNumber and
\* tag, and drops the keys it does not declare.
RequiredArgs == {"get-issue", "get-release-by-tag"}

NoArgs == {"list-all-releases", "list-resources", "list-datasources"}

safeParse(name, arguments) ==
    CASE arguments = "undefined" -> FALSE
      [] arguments = "empty" -> name \notin RequiredArgs
      [] arguments = "typed" -> TRUE
      [] OTHER -> name \in NoArgs

\* The awaited calls of a case once its arguments are validated, in order:
\* GitHub requests through the adapter, reads of the local docs directory.
\* A doc tool without file_name and without a name awaits nothing.
BackendCalls(name, arguments) ==
    CASE name \in GitHubTools -> <<"github">>
      [] name \in LocalDocsTools -> <<"local-docs">>
      [] OTHER -> IF arguments = "typed" THEN <<"local-docs", "github">>
                  ELSE <<>>

ErrorHandling(name, message) == <<"Error handling ", name, ": ", message>>

InvalidArguments == <<"Invalid arguments: ", "ZodError">>

UnknownTool(name) == <<"Unknown tool: ", name>>

\* The catch clause of the cases.
CaseCatch(name, message) ==
    IF name \in DocTools THEN <<"Error: ", message>>
    ELSE ErrorHandling(name, message)

NameMissing(name) ==
    IF name = "get-resource-doc"
    THEN <<"Error: file_name or aws_resource must be provided.">>
    ELSE <<"Error: file_name or aws_datasource must be provided.">>

ToolReturn(c, content) ==
    [c EXCEPT !.pc = "returned", !.content = content]

\* The switch: the case of the tool up to its first await, or the default.
ToolSwitch(c) ==
    IF c.name \notin KnownTools
    THEN ToolReturn(c, <<UnknownTool(c.name)>>)
    ELSE LET v == [c EXCEPT !.effects = Append(@, "safeParse")]
         IN IF ~safeParse(c.name, c.arguments)
            THEN ToolReturn(v, <<InvalidArguments>>)
            ELSE IF BackendCalls(c.name, c.arguments) = <<>>
                 THEN ToolReturn(v, <<NameMissing(c.name)>>)
                 ELSE [v EXCEPT !.pc = "awaiting",
                                !.pending = BackendCalls(c.name, c.arguments)]

ToolEnter_ValidateFirst(c) ==
    LET s == ToolSwitch(c)
    IN IF TokenThrows(c.token)
       THEN [s EXCEPT !.pc = "returned",
                      !.content = <<ErrorHandling(c.name, TokenMessage(c.token))>>]
       ELSE s

\* The handler from its entry to its first await or return: the token
\* check in its try block, then the switch.
ToolEnter(c) ==
    IF TokenThrows(c.token)
    THEN ToolReturn(c, <<ErrorHandling(c.name, TokenMessage(c.token))>>)
    ELSE ToolSwitch(c)

ToolCatch_Rethrow(c, message) == [c EXCEPT !.pc = "thrown"]

\* An awaited call of a case throws: the catch clause of the case answers.
ToolCatch(c, message) == ToolReturn(c, <<CaseCatch(c.name, message)>>)

\* What a case returns once its last awaited call has returned: the
\* formatted items, none when a listing is empty.
CaseItems(name, n) ==
    IF name \in {"get-open-issues", "list-all-releases"} \cup LocalDocsTools
    THEN [k \in 1..n |-> <<"item">>]
    ELSE <<<<"item">>>>

NewToolCall(name, arguments, token) ==
    [pc |-> "request", name |-> name, arguments |-> arguments, token |-> token,
     pending |-> <<>>, effects |-> <<>>, content |-> <<>>]

DocsIdle ==
    /\ NormOff
    /\ LabelIdle
    /\ LevIdle
    /\ FuzzyIdle
    /\ CallsIdle
    /\ HandlerOff

InitTool ==
    /\ DocsIdle
    /\ ListIdle
    /\ ReleaseIdle
    /\ ReadIdle
    /\ toolCall \in {NewToolCall(n, a, t) :
                       n \in ToolNamePool, a \in ArgumentPool, t \in TokenPool}

ToolCallEnter ==
    /\ toolCall.pc = "request"
    /\ toolCall' = ToolEnter(toolCall)
    /\ UNCHANGED <<nInput, nOnce, nTwice, npc, nOther, nRel, nOtherNorm,
                   levA, levB, levC, levOut, fzTarget, fzCandidates, fzOut,
                   fzpc, calls, listCall, releaseCall, readCall, rvars, hvars>>

\* The awaited call returns or throws.
ToolCallAwait ==
    /\ toolCall.pc = "awaiting"
    /\ LET c == [toolCall EXCEPT !.pending = Tail(@),
                                 !.effects = Append(@, Head(toolCall.pending))]
       IN \/ toolCall' = ToolCatch(c, "failed")
          \/ /\ c.pending # <<>>
             /\ toolCall' = c
          \/ /\ c.pending = <<>>
             /\ \E n \in 0..MaxList : toolCall' = ToolReturn(c, CaseItems(c.name, n))
    /\ UNCHANGED <<nInput, nOnce, nTwice, npc, nOther, nRel, nOtherNorm,
                   levA, levB, levC, levOut, fzTarget, fzCandidates, fzOut,
                   fzpc, calls, listCall, releaseCall, readCall, rvars, hvars>>

NextTool == ToolCallEnter \/ ToolCallAwait

SpecTool == InitTool /\ [][NextTool]_vars

\* --------------------------------------------------- listing open issues
\* GitHubAdapter.listIssuesByState and the get-open-issues case that calls
\* it. The repository holds `open` open issues, numbered here by their place
\* in the API's listing; a request for a page returns the issues of that
\* page, or fails.
perPage == 100

MAX_GITHUB_ISSUES_PAGES == 12

MaxFullPages == 13

\* Numbers of open issues: around the page size, around the size the tool
\* description gives, and beyond MAX_GITHUB_ISSUES_PAGES full pages.
OpenCounts == {h * perPage + d : h \in 0..MaxFullPages, d \in {0, 1, 30, 31, 99}}

\* args.all as the handler passes it on.
AllPool == {"undefined", "true", "false"}

\* The default of the parameter: all = false.
AllOrDefault(a) == IF a = "undefined" THEN FALSE ELSE a = "true"

\* octokit.issues.listForRepo({state, per_page, page}).data
listForRepo(open, per_page, page) ==
    LET from == (page - 1) * per_page
        upto == IF page * per_page < open THEN page * per_page ELSE open
    IN IF from >= open THEN <<>> ELSE [k \in 1..(upto - from) |-> from + k]

keepGoing_NoCap(all, length, page) == ~(~all \/ length < perPage)

\* keepGoing after a page: false if not paginating, or fewer results than
\* perPage, or the page limit is reached.
keepGoing(all, length, page) ==
    ~(~all \/ length < perPage \/ page >= MAX_GITHUB_ISSUES_PAGES)

formatGhIssuesDataAsTXT(issues) == [k \in DOMAIN issues |-> <<"issue", issues[k]>>]

NewListCall(a, open) ==
    [pc |-> "awaiting", arg |-> a, all |-> AllOrDefault(a), open |-> open,
     page |-> 1, issues |-> <<>>, requested |-> <<>>, threw |-> FALSE,
     content |-> <<>>]

InitList ==
    /\ DocsIdle
    /\ ToolIdle
    /\ ReleaseIdle
    /\ ReadIdle
    /\ listCall \in {NewListCall(a, n) : a \in AllPool, n \in OpenCounts}

\* One turn of the while loop: the request for `page` returns and its data
\* is appended, then either the loop goes on with the next page or the
\* adapter returns and the handler formats the issues; or the request fails,
\* the adapter rethrows and the catch of the case answers.
ListIssuesPage ==
    /\ listCall.pc = "awaiting"
    /\ LET c == [listCall EXCEPT !.requested = Append(@, listCall.page)]
           data == listForRepo(c.open, perPage, c.page)
           got == [c EXCEPT !.issues = @ \o data]
       IN \/ listCall' = [c EXCEPT !.pc = "returned", !.threw = TRUE,
                                   !.content = <<ErrorHandling("get-open-issues",
                                                     "Error: listIssuesByState: failed")>>]
          \/ IF keepGoing(c.all, Len(data), c.page)
             THEN listCall' = [got EXCEPT !.page = @ + 1]
             ELSE listCall' = [got EXCEPT !.pc = "returned",
                                    !.content = formatGhIssuesDataAsTXT(got.issues)]
    /\ UNCHANGED <<nInput, nOnce, nTwice, npc, nOther, nRel, nOtherNorm,
                   levA, levB, levC, levOut, fzTarget, fzCandidates, fzOut,
                   fzpc, calls, toolCall, releaseCall, readCall, rvars, hvars>>

NextList == ListIssuesPage

SpecList == InitList /\ [][NextList]_vars

\* Each request is answered: the awaited promise settles.
SpecListFair == SpecList /\ WF_vars(ListIssuesPage)

\* ------------------------------------------- releases with their issues
\* The cases get-release-by-tag and get-latest-release of the tool handler
\* with include_issues: the issue numbers are taken from the release body
\* by body.matchAll(/#(\d{2,7})/g), made unique, and fetched one by one.
DecimalDigits == <<"0", "1", "2", "3", "4", "5", "6", "7", "8", "9">>

IsDigit(ch) == ch \in DigitChars

DigitValue(ch) == (CHOOSE d \in DOMAIN DecimalDigits : DecimalDigits[d] = ch) - 1

\* Number(m[1]) of a string of digits.
RECURSIVE Number(_)
Number(ds) ==
    IF ds = <<>> THEN 0
    ELSE 10 * Number(SubSeq(ds, 1, Len(ds) - 1)) + DigitValue(ds[Len(ds)])

\* The digits of s from position k on, at most max of them.
RECURSIVE DigitRun(_, _, _)
DigitRun(s, k, max) ==
    IF max = 0 \/ k > Len(s) \/ ~IsDigit(s[k]) THEN 0
    ELSE 1 + DigitRun(s, k + 1, max - 1)

MinDigits == 2

MaxDigits == 7

matchAll_AnyDigits(s, k) ==
    LET RECURSIVE scan(_)
        scan(p) ==
            IF p > Len(s) THEN <<>>
            ELSE IF s[p] = "#" /\ DigitRun(s, p + 1, Len(s)) >= 1
                 THEN LET n == DigitRun(s, p + 1, Len(s))
                      IN <<SubSeq(s, p + 1, p + n)>> \o scan(p + n + 1)
                 ELSE scan(p + 1)
    IN scan(k)

\* body.matchAll(/#(\d{2,7})/g) from position k on: the captured groups, in
\* order. \d{2,7} is greedy and the search goes on after each match.
RECURSIVE matchAll(_, _)
matchAll(s, k) ==
    IF k > Len(s) THEN <<>>
    ELSE IF s[k] = "#" /\ DigitRun(s, k + 1, MaxDigits) >= MinDigits
         THEN LET n == DigitRun(s, k + 1, MaxDigits)
              IN <<SubSeq(s, k + 1, k + n)>> \o matchAll(s, k + n + 1)
         ELSE matchAll(s, k + 1)

\* Array.from(new Set(xs)): the first occurrences, in order.
RECURSIVE ArrayFromSet(_)
ArrayFromSet(xs) ==
    IF xs = <<>> THEN <<>>
    ELSE LET front == ArrayFromSet(SubSeq(xs, 1, Len(xs) - 1))
             last == xs[Len(xs)]
         IN IF \E k \in DOMAIN front : front[k] = last THEN front
            ELSE Append(front, last)

uniqueIssueNumbers(body) ==
    LET groups == matchAll(body, 1)
    IN ArrayFromSet([k \in DOMAIN groups |-> Number(groups[k])])

\* The entry pushed for an issue: the fetched issue, or the placeholder of
\* the catch clause.
FetchedIssue(n) == [number |-> n, title |-> <<"$title">>]

PlaceholderIssue(n) ==
    [number |-> n, title |-> <<"Referenced issue #", n, " could not be fetched">>]

\* formatGhReleaseWithIssuesDataAsTXT: the release, then one REFERENCED
\* ISSUE section per entry.
formatGhReleaseWithIssuesDataAsTXT(body, issues) ==
    [release |-> body,
     sections |-> [k \in DOMAIN issues |->
                      <<"REFERENCED ISSUE:", issues[k].number, issues[k].title>>]]

formatGhReleasesDataAsTXT(body) == <<[release |-> body, sections |-> <<>>]>>

NoReleases == <<"No releases found for the Terraform AWS Provider repository.">>

ReleaseTools == {"get-release-by-tag", "get-latest-release"}

\* Pieces of release bodies: references of one, two, three and eight
\* digits, text, a blank.
MaxRefs == 3

R_7 == <<"#", "7">>

R_12 == <<"#", "1", "2">>

R_345 == <<"#", "3", "4", "5">>

R_LONG == <<"#", "1", "2", "3", "4", "5", "6", "7", "8">>

BodyPieces == {R_7, R_12, R_345, R_LONG, <<" ">>, <<"f", "i", "x">>}

Bodies == {Flatten(ps) : ps \in SeqsUpTo(BodyPieces, MaxRefs)}

NewReleaseCall(t, inc, body) ==
    [pc |-> "release", name |-> t, include_issues |-> inc, body |-> body,
     numbers |-> <<>>, issues |-> <<>>, fetchLog |-> <<>>, threw |-> FALSE,
     content |-> <<>>]

InitRelease ==
    /\ DocsIdle
    /\ ToolIdle
    /\ ListIdle
    /\ ReadIdle
    /\ releaseCall \in {NewReleaseCall(t, inc, b) :
                          t \in ReleaseTools, inc \in BOOLEAN, b \in Bodies}

ReleaseUnchanged ==
    UNCHANGED <<nInput, nOnce, nTwice, npc, nOther, nRel, nOtherNorm,
                levA, levB, levC, levOut, fzTarget, fzCandidates, fzOut,
                fzpc, calls, toolCall, listCall, readCall, rvars, hvars>>

\* await gh.getReleaseByTag / gh.listReleases settles: the request fails and
\* the catch of the case answers, or there is no release, or the release is
\* there and its body is searched for issue numbers.
ReleaseFetched ==
    /\ releaseCall.pc = "release"
    /\ LET c == releaseCall
           numbers == uniqueIssueNumbers(c.body)
       IN \/ releaseCall' = [c EXCEPT !.pc = "returned", !.threw = TRUE,
                                      !.content = <<ErrorHandling(c.name, "failed")>>]
          \/ /\ c.name = "get-latest-release"
             /\ releaseCall' = [c EXCEPT !.pc = "returned", !.threw = TRUE,
                                         !.content = <<NoReleases>>]
          \/ IF ~c.include_issues
             THEN releaseCall' = [c EXCEPT !.pc = "returned",
                                      !.content = formatGhReleasesDataAsTXT(c.body)]
             ELSE IF numbers = <<>>
                  THEN releaseCall' = [c EXCEPT !.pc = "returned",
                           !.content = <<formatGhReleaseWithIssuesDataAsTXT(c.body, <<>>)>>]
                  ELSE releaseCall' = [c EXCEPT !.pc = "issues", !.numbers = numbers]
    /\ ReleaseUnchanged

\* One turn of for (const issueNumber of uniqueIssueNumbers): the issue is
\* fetched, or the fetch fails and the placeholder is pushed; after the last
\* number the release and the entries are formatted into one item.
ReleaseIssue ==
    /\ releaseCall.pc = "issues"
    /\ LET c == releaseCall
           n == c.numbers[Len(c.issues) + 1]
       IN \E ok \in BOOLEAN :
            LET d == [c EXCEPT !.fetchLog = Append(@, n),
                               !.issues = Append(@, IF ok THEN FetchedIssue(n)
                                                    ELSE PlaceholderIssue(n))]
            IN releaseCall' =
                 IF Len(d.issues) < Len(d.numbers) THEN d
                 ELSE [d EXCEPT !.pc = "returned",
                          !.content = <<formatGhReleaseWithIssuesDataAsTXT(d.body, d.issues)>>]
    /\ ReleaseUnchanged

NextRelease == ReleaseFetched \/ ReleaseIssue

SpecRelease == InitRelease /\ [][NextRelease]_vars

\* ------------------------------------------------------ reading resources
\* RESOURCES, getResourceByUri and the ReadResourceRequest handler.
RESOURCES ==
    <<[name |-> "terraform-aws-provider-repo",
       uri |-> <<"config", "://", "repo">>,
       text |-> "TERRAFORM_AWS_PROVIDER_REPOSITORY_URI",
       mimeType |-> "text/plain"],
      [name |-> "terraform-aws-provider-registry",
       uri |-> <<"config", "://", "registry">>,
       text |-> "TERRAFORM_AWS_PROVIDER_REGISTRY_URL",
       mimeType |-> "text/plain"]>>

Undefined == [undefined |-> TRUE]

getResourceByUri_SameScheme(uri) ==
    IF \E k \in DOMAIN RESOURCES : uri # <<>> /\ RESOURCES[k].uri[1] = uri[1]
    THEN RESOURCES[CHOOSE k \in DOMAIN RESOURCES :
                      /\ RESOURCES[k].uri[1] = uri[1]
                      /\ \A m \in 1..(k - 1) : RESOURCES[m].uri[1] # uri[1]]
    ELSE Undefined

\* RESOURCES.find((res) => res.uri === uri): the first entry with that uri.
getResourceByUri(uri) ==
    IF \E k \in DOMAIN RESOURCES : RESOURCES[k].uri = uri
    THEN RESOURCES[CHOOSE k \in DOMAIN RESOURCES :
                      /\ RESOURCES[k].uri = uri
                      /\ \A m \in 1..(k - 1) : RESOURCES[m].uri # uri]
    ELSE Undefined

NotFound(uri) ==
    <<"Resource with URI \"">> \o uri \o <<"\" not found in available resources">>

\* URIs a client may ask for, built from these pieces.
MaxUriPieces == 3

UriPieces == {"config", "://", "repo", "registry", "nonexistent", "uri", "/"}

UriPool == SeqsUpTo(UriPieces, MaxUriPieces)

InitRead ==
    /\ DocsIdle
    /\ ToolIdle
    /\ ListIdle
    /\ ReleaseIdle
    /\ readCall \in {[pc |-> "request", uri |-> u, contents |-> <<>>, error |-> <<>>] :
                       u \in UriPool}

\* The handler: the resource as the only content item, or the error thrown.
ReadResource ==
    /\ readCall.pc = "request"
    /\ LET resource == getResourceByUri(readCall.uri)
       IN readCall' =
            IF resource # Undefined
            THEN [readCall EXCEPT !.pc = "returned", !.contents = <<resource>>]
            ELSE [readCall EXCEPT !.pc = "thrown", !.error = NotFound(readCall.uri)]
    /\ UNCHANGED <<nInput, nOnce, nTwice, npc, nOther, nRel, nOtherNorm,
                   levA, levB, levC, levOut, fzTarget, fzCandidates, fzOut,
                   fzpc, calls, toolCall, listCall, releaseCall, rvars, hvars>>

NextRead == ReadResource

SpecRead == InitRead /\ [][NextRead]_vars

\* ------------------------------------------------------------ properties
\* The scored candidates of the directory, derived from the files themselves:
\* the triples <<document, position, distance to the normalised query>> of
\* the candidates the loops do not skip.
ScoredTable ==
    LET norm == normaliseAWSResourceNameOrSubcategory(args.aws_name.val)
        row(d) == BuildCandidates(IsResource, DocMetadata(IsResource, dir[d]))
        rowTable(d, cs) ==
            {<<d, p, levenshtein(norm, cs[p])>> : p \in {q \in 1..Len(cs) : cs[q] # <<>>}}
    IN UNION {rowTable(d, row(d)) : d \in 1..Len(dir)}

\* The entries of table t at the least distance of all.
Nearest(t) == {c \in t : \A o \in t : c[3] <= o[3]}

Before(a, b) == a[1] < b[1] \/ (a[1] = b[1] /\ a[2] < b[2])

\* The first entry of s in scan order.
First(s) == CHOOSE c \in s : \A o \in s : o = c \/ Before(c, o)

Returned == pc = "resolved"
Succeeded == Returned /\ ~StartsWith(resolved.text, ERROR_PREFIX)

\* The text the resolver returns for document d.
TextOfDoc(d) ==
    IF IsResource THEN DocsLocalDir(TRUE) \o <<"/">> \o EntryName(dir[d])
    ELSE EntryName(dir[d])

\* C1: a successful resolver returns a document that owns a candidate whose
\* distance to the normalised query is the least over all scored candidates
\* of all documents and all fields.
C1_GlobalArgmin ==
    Succeeded =>
        LET near == Nearest(ScoredTable)
        IN \E c \in near : resolved.text = TextOfDoc(c[1])

\* C1 witness: the winner's nearest candidate is an argument name, and an
\* earlier document has a candidate within the threshold that is farther.
C1_Witness ==
    /\ Succeeded
    /\ Len(dir) = 2
    /\ resolved.text = TextOfDoc(2)
    /\ LET t == ScoredTable
       IN /\ \A c \in Nearest(t) : c[1] = 2 /\ c[2] > 5
          /\ \E c \in t : c[1] = 1 /\ c[3] <= threshold

\* C2: the resolver returns a document exactly when some scored candidate is
\* within distance 3 of the normalised query (3 itself included); otherwise,
\* an empty directory included, it returns the not-found text.
C2_FoundIffWithinThreshold ==
    Returned =>
        /\ Succeeded <=> \E c \in ScoredTable : c[3] <= 3
        /\ ~Succeeded => resolved = Text(NoMatchText(IsResource, args.aws_name.val))

\* C2 witness: a match at distance exactly 3.
C2_Witness ==
    /\ Succeeded
    /\ \A c \in Nearest(ScoredTable) : c[3] = 3

\* C2 witness: not found, with every candidate farther than 3.
C2_WitnessFar ==
    /\ Returned
    /\ ~Succeeded
    /\ \E c \in ScoredTable : c[3] = 4

\* C3: among the candidates at the least distance the first in scan order
\* (documents in directory order, candidates in builder order) wins, in the
\* document index and in the tracked field.
C3_FirstWins ==
    Succeeded =>
        LET first == First(Nearest(ScoredTable))
        IN /\ bestMatchIdx = first[1] - 1
           /\ bestField = FieldLabel(IsResource, first[2])
           /\ bestScore = first[3]

\* C3 witness: a tie between two documents, and within the winning document.
C3_Witness ==
    /\ Succeeded
    /\ LET near == Nearest(ScoredTable)
       IN /\ \E a, b \in near : a[1] # b[1]
          /\ \E a, b \in near : a[1] = b[1] /\ a[2] # b[2] /\ a[1] = bestMatchIdx + 1

\* The semantic field of position p of the candidates of file f.
SemanticField(isRes, f, p) ==
    IF p <= 5 THEN fieldNames(isRes)[p]
    ELSE IF p <= 5 + Len(f.headings) THEN <<"heading">>
    ELSE <<"argument_name">>

\* The raw value of scalar field p (1..5) of file f, as the lister gives it.
RawField(isRes, f, p) ==
    LET m == DocMetadata(isRes, f)
    IN << m.subcategory, StripExt(BaseName(m.file_path)), m.page_title, m.description,
          IF isRes THEN m.entity_description ELSE m.entity >>[p]

\* C4: the winning candidate never comes from a field whose raw value is the
\* placeholder "(missing)" or "(malformed)".
C4_PlaceholderNeverWins ==
    Succeeded =>
        LET first == First(Nearest(ScoredTable))
        IN ~(/\ first[2] <= 5
             /\ RawField(IsResource, dir[first[1]], first[2]) \in {MISSING, MALFORMED})

\* The handler is done with a request that named a file.
DoneByFileName == pc = "done" /\ Truthy(args.file_name)

\* C5: with a file_name the resolver is never invoked, and the answer is
\* built from that file name alone, whatever the free-text name is.
C5_FileNameFirst ==
    /\ Truthy(args.file_name) => resolverCalls = 0 /\ resolved = NoResult
    /\ DoneByFileName =>
         LET path == FetchPath(IsResource, args.file_name.val)
         IN /\ fetchLog = <<path>>
            /\ response \in {<<Formatted(path)>>, <<Text(FetchErrorText(IsResource, path))>>}

\* C5 witness: both arguments were given and the file was fetched.
C5_Witness ==
    /\ DoneByFileName
    /\ Truthy(args.aws_name)
    /\ Len(fetchLog) = 1

\* The handler is done with a request the resolver answered.
DoneResolved == pc = "done" /\ resolved # NoResult

\* The directory of the documents the tool fetches.
DocsDir ==
    IF IsResource THEN TERRAFORM_AWS_PROVIDER_RESOURCE_DOCS_PATH
    ELSE TERRAFORM_AWS_PROVIDER_DOCS_DATASOURCES_LOCAL_DIR \o <<"/">>

\* C6: after a successful resolution the path fetched is the docs directory
\* followed by exactly the winning document's file name.
C6_FetchesWinner ==
    DoneResolved /\ bestMatchIdx # -1 =>
        fetchLog = << DocsDir \o EntryName(dir[bestMatchIdx + 1]) >>

\* C7: a not-found outcome is a returned text; the handler answers with that
\* one "no match" text item and fetches nothing.
C7_NotFoundIsAnswer ==
    /\ Returned => resolved.type = "text"
    /\ DoneResolved /\ bestMatchIdx = -1 =>
         /\ response = << Text(NoMatchText(IsResource, args.aws_name.val)) >>
         /\ fetchLog = <<>>

\* C7 witness: the handler answered a query that matched nothing.
C7_Witness ==
    /\ DoneResolved
    /\ bestMatchIdx = -1
    /\ Len(dir) > 0
    /\ Len(response) = 1

\* C8: on success the return value holds the winning document's identifier,
\* its locator and the name of the field that matched.
C8_ReturnsIdLocatorField ==
    Succeeded =>
        LET w == resources[bestMatchIdx + 1]
            want == [identifier |-> w.id, locator |-> w.file_path, matchedField |-> bestField]
        IN \A k \in DOMAIN want : k \in DOMAIN resolved /\ resolved[k] = want[k]

\* C9: the field tracked for the winning candidate is its semantic field: a
\* heading is labelled heading, an argument name argument_name.
C9_LabelIsSemanticField ==
    Succeeded =>
        LET first == First(Nearest(ScoredTable))
        IN bestField = SemanticField(IsResource, dir[first[1]], first[2])

\* C10: normalising a normalised label changes nothing.
C10_Idempotent == npc = "twice" => nTwice = nOnce

\* The reference normalisation: lower-case, cut the longest vendor head
\* (a vendor token, then at most one separator) the string starts with, keep
\* the characters of [a-z0-9].
VendorHeads ==
    {v \o sep : v \in {AWS, AMAZON}, sep \in {<<>>} \cup {<<x>> : x \in Separators}}

StartsWithVendor(s) == \E h \in VendorHeads : StartsWith(toLowerCase(s), h)

RefNormalise(s) ==
    LET l == [k \in 1..Len(s) |-> ToLowerChar(s[k])]
        cuts == {Len(h) : h \in {g \in VendorHeads : StartsWith(l, g)}} \cup {0}
        cut == CHOOSE n \in cuts : \A m \in cuts : m <= n
    IN SelectSeq(SubSeq(l, cut + 1, Len(l)), LAMBDA ch : ch \in LowerSet \cup DigitChars)

NormalisedBoth == npc = "other"

\* What C11 says of one label besides the two related-label clauses: the
\* result is the reference's and holds only characters of [a-z0-9].
NormaliseIsReference ==
    /\ nOnce = RefNormalise(nInput)
    /\ nOtherNorm = RefNormalise(nOther)
    /\ \A k \in 1..Len(nOnce) : nOnce[k] \in LowerSet \cup DigitChars

\* C11: the normaliser equals the reference (lower-case, at most one vendor
\* token with an optional separator cut at the very start, then only [a-z0-9]
\* kept); labels differing only in letter case normalise equally, and a
\* label behind a vendor prefix normalises as the label without it.
C11_NormaliseContract ==
    NormalisedBoth =>
        /\ NormaliseIsReference
        /\ nRel = "case" => nOtherNorm = nOnce
        /\ nRel = "prefix" => nOtherNorm = nOnce

\* C11 amended: as C11, the vendor-prefix clause only for a label that does
\* not itself begin with a vendor token.
C11_NormaliseContractAmended ==
    NormalisedBoth =>
        /\ NormaliseIsReference
        /\ nRel = "case" => nOtherNorm = nOnce
        /\ nRel = "prefix" /\ ~StartsWithVendor(nInput) => nOtherNorm = nOnce

\* C11 witness: a label with punctuation behind "Amazon ", both normalised
\* to the same non-empty value.
C11_Witness ==
    /\ NormalisedBoth
    /\ nRel = "prefix"
    /\ StartsWith(nOther, <<"A","m","a","z","o","n"," ">>)
    /\ ~StartsWithVendor(nInput)
    /\ Len(nOnce) > 0
    /\ Len(nOnce) < Len(nInput)
    /\ nOtherNorm = nOnce

\* The full recurrence of the unit-cost edit distance, cell [m][n].
RECURSIVE ClassicCell(_, _, _, _)
ClassicCell(a, b, m, n) ==
    IF m = 0 THEN n
    ELSE IF n = 0 THEN m
    ELSE Min3(ClassicCell(a, b, m - 1, n) + 1,
              ClassicCell(a, b, m, n - 1) + 1,
              ClassicCell(a, b, m - 1, n - 1) + (IF a[m] = b[n] THEN 0 ELSE 1))

\* C12: the distance levenshtein has just computed is the value of the full
\* recurrence (min of delete, insert, substitute-or-match in every cell).
C12_IsClassicDistance ==
    levOut # <<>> =>
        LET call == LevCalls[Len(levOut)]
        IN levOut[Len(levOut)] = ClassicCell(call[1], call[2], Len(call[1]), Len(call[2]))

\* C12 witness: two strings with a pair of equal characters off the
\* diagonal, at distance 2.
C12_Witness ==
    /\ Len(levOut) >= 1
    /\ Len(levA) = 3
    /\ Len(levB) = 3
    /\ levA[1] = levB[2]
    /\ levA[1] # levB[1]
    /\ levOut[1] = 2

\* C16: the distance from a to b is the distance from b to a.
C16_Symmetric == Len(levOut) >= 2 => levOut[1] = levOut[2]

\* C16 witness: two strings of different lengths, two edits apart.
C16_Witness ==
    /\ Len(levOut) >= 2
    /\ Len(levA) < Len(levB)
    /\ levA # <<>>
    /\ levOut[2] = 2

\* C17: the distance from a to c is at most the distance from a to b plus
\* the distance from b to c.
C17_Triangle == Len(levOut) >= 4 => levOut[4] <= levOut[1] + levOut[3]

\* C17 witness: three different strings, b on a shortest way from a to c.
C17_Witness ==
    /\ Len(levOut) >= 4
    /\ levOut[1] > 0
    /\ levOut[3] > 0
    /\ levOut[4] = levOut[1] + levOut[3]
    /\ levOut[4] = 3

\* C18: the distance of a string to itself is 0, and the distance between
\* the empty string and a string, in either order, is the string's length.
C18_IdentityAndEmpty ==
    /\ Len(levOut) >= 5 => levOut[5] = 0
    /\ Len(levOut) >= 6 => levOut[6] = Len(levA)
    /\ Len(levOut) >= 7 => levOut[7] = Len(levA)

\* C18 witness: all three calls made on a string of three characters.
C18_Witness ==
    /\ Len(levOut) = 7
    /\ Len(levA) = 3

\* C18 witness: all three calls made on the empty string.
C18_WitnessEmpty ==
    /\ Len(levOut) = 7
    /\ levA = <<>>

\* The distances of the target to the candidates as passed.
RawDistances == [k \in 1..Len(fzCandidates) |-> levenshtein(fzTarget, fzCandidates[k])]

FuzzyReturned == fzpc = "returned"

\* C13: a match is the lowest index at the least distance over all
\* candidates, with that candidate and that distance.
C13_LowestIndexAtMinimum ==
    FuzzyReturned /\ fzOut.found =>
        LET ds == RawDistances
            least == CHOOSE x \in {ds[k] : k \in DOMAIN ds} : \A k \in DOMAIN ds : x <= ds[k]
            lowest == CHOOSE k \in DOMAIN ds : ds[k] = least /\ \A h \in 1..(k - 1) : ds[h] # least
        IN /\ fzOut.index = lowest - 1
           /\ fzOut.match = fzCandidates[lowest]
           /\ fzOut.distance = least

\* C13 witness: findBestFuzzyMatch("ab", ["ab", "ab"], 3) returned index 0.
C13_Witness ==
    /\ FuzzyReturned
    /\ fzTarget = F_AB
    /\ fzCandidates = <<F_AB, F_AB>>
    /\ fzOut.found
    /\ fzOut.index = 0

\* C14: null is returned exactly when there is no candidate or every
\* candidate is farther than the threshold; a returned distance is at most
\* the threshold.
C14_NullIffBeyondThreshold ==
    FuzzyReturned =>
        LET ds == RawDistances
        IN /\ fzOut = NullMatch <=> \A k \in DOMAIN ds : ds[k] > threshold
           /\ fzOut # NullMatch => fzOut.found /\ fzOut.distance <= threshold

\* C14 witness: a match at a distance equal to the threshold.
C14_Witness ==
    /\ FuzzyReturned
    /\ fzOut.found
    /\ fzOut.distance = threshold

\* C14 witness: findBestFuzzyMatch("xyz", ["abcdefg"], 3) returned null.
C14_WitnessNull ==
    /\ FuzzyReturned
    /\ fzTarget = F_XYZ
    /\ fzCandidates = <<F_ABCDEFG>>
    /\ fzOut = NullMatch

\* C15: the result is computed from the strings as passed: the match is the
\* candidate itself, its distance is the distance of the raw strings, and
\* null means every raw distance is beyond the threshold.
C15_NoNormalisation ==
    FuzzyReturned =>
        IF fzOut.found
        THEN /\ fzOut.match = fzCandidates[fzOut.index + 1]
             /\ fzOut.distance = levenshtein(fzTarget, fzCandidates[fzOut.index + 1])
        ELSE \A k \in 1..Len(fzCandidates) :
                 levenshtein(fzTarget, fzCandidates[k]) > threshold

\* C15 witness: null although a candidate equals the target once both are
\* normalised.
C15_Witness ==
    /\ FuzzyReturned
    /\ ~fzOut.found
    /\ \E k \in 1..Len(fzCandidates) :
           normaliseAWSResourceNameOrSubcategory(fzCandidates[k])
             = normaliseAWSResourceNameOrSubcategory(fzTarget)

\* C15 witness: a match that differs from the target in letter case only.
C15_WitnessCase ==
    /\ FuzzyReturned
    /\ fzOut.found
    /\ fzOut.match # fzTarget
    /\ toLowerCase(fzOut.match) = toLowerCase(fzTarget)
    /\ fzOut.distance = 2

\* The request names no file and its free-text name is absent or empty.
NoQuery == ~Truthy(args.file_name) /\ ~Truthy(args.aws_name)

\* C19: a request with no file name and an absent or empty free-text name
\* is answered with the "must be provided" error text; the resolver is never
\* invoked, the directory is never listed and no candidate is scored.
C19_EmptyQueryRejected ==
    NoQuery =>
        /\ pc \in {"request", "done"}
        /\ resolverCalls = 0
        /\ resources = <<>>
        /\ candidates = <<>>
        /\ bestScore = POSITIVE_INFINITY
        /\ fetchLog = <<>>
        /\ pc = "done" =>
             response = << Text(ERROR_PREFIX \o
                              (IF IsResource
                               THEN <<" file_name or aws_resource must be provided.">>
                               ELSE <<" file_name or aws_datasource must be provided.">>)) >>

\* C19 witness: an empty free-text name, no file name, a directory with
\* documents, and the error answered.
C19_Witness ==
    /\ pc = "done"
    /\ args.aws_name = Some(<<>>)
    /\ ~args.file_name.has
    /\ Len(dir) > 0
    /\ Len(response) = 1
    /\ StartsWith(response[1].text, ERROR_PREFIX)

\* C19 witness: no argument at all.
C19_WitnessAbsent ==
    /\ pc = "done"
    /\ args = [aws_name |-> None, file_name |-> None]
    /\ Len(response) = 1

\* What a resolver returns when it runs alone, from start to end, on a
\* name and the files of its directory.
ResolveAlone(isRes, name, files) ==
    IF name = <<>> THEN NameMissingText(isRes)
    ELSE ResolveAfterListing(isRes, name, normaliseAWSResourceNameOrSubcategory(name),
                             listLocalDocsWithMetadata(isRes, files))

SameInputs(x, y) == x.isRes = y.isRes /\ x.name = y.name /\ x.files = y.files

\* C20: however two calls interleave at their awaits, each returns what it
\* returns alone on its own name and files, and two calls with the same
\* name and files return the same.
C20_CallsIndependent ==
    /\ \A p \in DOMAIN calls :
          calls[p].pc = "returned" =>
              calls[p].out = ResolveAlone(calls[p].isRes, calls[p].name, calls[p].files)
    /\ \A p, q \in DOMAIN calls :
          calls[p].pc = "returned" /\ calls[q].pc = "returned"
            /\ SameInputs(calls[p], calls[q])
          => calls[p].out = calls[q].out

\* C20 witness: two calls with the same name over different files, the
\* second returned while the first was still listing, with different
\* documents found.
C20_Witness ==
    /\ calls # <<>>
    /\ calls[1].pc = "listing"
    /\ calls[1].next = 2
    /\ calls[2].pc = "returned"
    /\ calls[1].name = calls[2].name
    /\ Len(calls[2].files) = 2
    /\ calls[1].files # calls[2].files
    /\ ~StartsWith(calls[2].out.text, ERROR_PREFIX)

\* C20 witness: both returned on the same inputs with a document found.
C20_WitnessRepeat ==
    /\ calls # <<>>
    /\ calls[1].pc = "returned"
    /\ calls[2].pc = "returned"
    /\ SameInputs(calls[1], calls[2])
    /\ Len(calls[1].files) = 2
    /\ ~StartsWith(calls[1].out.text, ERROR_PREFIX)

CallFound(c) == c.pc = "returned" /\ ~StartsWith(c.out.text, ERROR_PREFIX)

\* The documents of the two calls have the same value at every position of
\* their candidate lists.
SamePositionValues ==
    /\ calls[1].name = calls[2].name
    /\ Len(calls[1].files) = Len(calls[2].files)
    /\ \A k \in 1..Len(calls[1].files) :
          BuildCandidates(TRUE, DocMetadata(TRUE, calls[1].files[k]))
            = BuildCandidates(FALSE, DocMetadata(FALSE, calls[2].files[k]))

BothReturned == calls # <<>> /\ calls[1].pc = "returned" /\ calls[2].pc = "returned"

C21_WitnessNotFound ==
    /\ BothReturned
    /\ SamePositionValues
    /\ Len(calls[1].files) = 2
    /\ ~CallFound(calls[1])
    /\ ~CallFound(calls[2])

\* A content item that suggests documents: it carries a list of suggestions,
\* or its text names a matched field.
Suggests(item) ==
    \/ "suggestions" \in DOMAIN item /\ item.suggestions # <<>>
    \/ \E k \in 1..Len(item.text) :
          \E p \in 1..Len(fieldNames(IsResource)) :
             <<item.text[k]>> = fieldNames(IsResource)[p]

\* C22: when no candidate is close enough although candidates were scored,
\* the answer holds suggestions, each with the field that matched.
C22_SuggestionsReturned ==
    DoneResolved /\ bestMatchIdx = -1 /\ ScoredTable # {} =>
        \E k \in 1..Len(response) : Suggests(response[k])

C23_WitnessUnknown ==
    /\ toolCall.pc = "returned"
    /\ toolCall.name \notin KnownTools
    /\ toolCall.token = "invalid"

\* C28: the handler is total. Whatever the token check, the validation and
\* the awaited calls do, a call that has ended has returned a content list
\* and has not thrown; a name without a case, under a valid token, is
\* answered by the single item "Unknown tool: <name>".
C28_HandlerTotal ==
    /\ toolCall.pc \in {"off", "request", "awaiting", "returned"}
    /\ toolCall.pc = "returned" =>
          /\ "content" \in DOMAIN toolCall
          /\ DOMAIN toolCall.content = 1..Len(toolCall.content)
          /\ (toolCall.name \notin KnownTools /\ ~TokenThrows(toolCall.token))
                => toolCall.content = <<UnknownTool(toolCall.name)>>

\* An awaited GitHub request of a doc tool throws after the local docs were
\* read, and the call is answered.
C28_Witness ==
    /\ toolCall.pc = "returned"
    /\ toolCall.name = "get-datasource-doc"
    /\ toolCall.effects = <<"safeParse", "local-docs", "github">>
    /\ toolCall.content = <<CaseCatch(toolCall.name, "failed")>>

\* An unknown name under a valid token.
C28_WitnessUnknown ==
    /\ toolCall.pc = "returned"
    /\ toolCall.name = "get-all-open-issues"
    /\ toolCall.token = "valid"

\* What the description of get-open-issues gives as the size of the answer
\* when all is false or omitted.
FirstIssuesDocumented == 30

ListReturned == listCall.pc = "returned" /\ ~listCall.threw

\* C24: called with all false or omitted, get-open-issues retrieves only the
\* first 30 open issues: the response holds at most 30 issues and exactly
\* one page was requested.
C24_FirstThirtyOnly ==
    (ListReturned /\ listCall.arg \in {"undefined", "false"})
        => /\ Len(listCall.content) <= FirstIssuesDocumented
           /\ listCall.requested = <<1>>

\* C25: called with all true, get-open-issues retrieves the complete list:
\* every open issue of the repository is in the response.
C25_CompleteList ==
    (ListReturned /\ listCall.arg = "true")
        => {listCall.content[k][2] : k \in DOMAIN listCall.content}
               = 1..listCall.open

\* The pages requested so far are 1, 2, 3, ... without a gap or a repeat,
\* at most MAX_GITHUB_ISSUES_PAGES of them, every one before the last was
\* full and asked for with all true, and a call that returned stopped at a
\* short page, at the page limit, or after one page.
PagesInOrder ==
    LET r == listCall.requested
    IN /\ \A k \in DOMAIN r : r[k] = k
       /\ Len(r) <= MAX_GITHUB_ISSUES_PAGES
       /\ \A k \in DOMAIN r :
             k < Len(r) =>
                /\ listCall.all
                /\ Len(listForRepo(listCall.open, perPage, k)) = perPage
       /\ ~listCall.all => Len(r) <= 1
       /\ ListReturned =>
             /\ Len(r) >= 1
             /\ \/ ~listCall.all /\ Len(r) = 1
                \/ Len(listForRepo(listCall.open, perPage, Len(r))) < perPage
                \/ Len(r) = MAX_GITHUB_ISSUES_PAGES

C29_WitnessShort ==
    /\ ListReturned
    /\ listCall.requested = <<1, 2, 3>>
    /\ listCall.open = 2 * perPage + 31

\* The issue numbers a text refers to: every # followed by digits, the
\* whole run of digits read as the number.
ReferencedNumbers(body) ==
    LET groups == matchAll_AnyDigits(body, 1)
    IN ArrayFromSet([k \in DOMAIN groups |-> Number(groups[k])])

\* C26: with include_issues true the release tools report every issue the
\* release body refers to: one entry per distinct referenced number, in
\* order of first reference, a placeholder where the fetch failed, every
\* number fetched, and the call answered with the formatted release.
C26_EveryReferencedIssue ==
    (releaseCall.pc = "returned" /\ releaseCall.include_issues /\ ~releaseCall.threw)
        => LET refs == ReferencedNumbers(releaseCall.body)
               out == releaseCall.content[1].sections
           IN /\ Len(releaseCall.content) = 1
              /\ [k \in DOMAIN out |-> out[k][2]] = refs
              /\ releaseCall.fetchLog = refs
              /\ \A k \in DOMAIN out :
                    out[k][3] \in {FetchedIssue(refs[k]).title,
                                   PlaceholderIssue(refs[k]).title}

ResourceUris == {RESOURCES[k].uri : k \in DOMAIN RESOURCES}

\* C27: getResourceByUri(u) is a resource with uri u when u is the URI of an
\* entry of RESOURCES and undefined otherwise; the read handler returns that
\* resource as the only content item in the first case and throws the
\* not-found error in the second.
C27_ReadByUri ==
    readCall.pc \in {"returned", "thrown"} =>
        IF readCall.uri \in ResourceUris
        THEN /\ readCall.pc = "returned"
             /\ Len(readCall.contents) = 1
             /\ readCall.contents[1].uri = readCall.uri
             /\ \E k \in DOMAIN RESOURCES : readCall.contents[1] = RESOURCES[k]
        ELSE /\ readCall.pc = "thrown"
             /\ readCall.contents = <<>>
             /\ readCall.error = NotFound(readCall.uri)

\* The second resource is read.
C27_Witness ==
    /\ readCall.pc = "returned"
    /\ readCall.uri = <<"config", "://", "registry">>

\* A URI of the same scheme that names no resource is refused.
C27_WitnessNotFound ==
    /\ readCall.pc = "thrown"
    /\ readCall.uri = <<"config", "://", "uri">>

HasEmptyCandidate ==
    \E d \in DOMAIN candidates : \E p \in DOMAIN candidates[d] : candidates[d][p] = <<>>

\* C30: a candidate that normalises to "" is skipped and never wins. When
\* the resolver has a best document, some candidate of that document that is
\* not empty carries the best field's label at the best distance, whatever
\* the query, one that normalises to "" included.
C30_EmptyCandidateNeverWins ==
    bestMatchIdx # -1 =>
        \E p \in DOMAIN candidates[bestMatchIdx + 1] :
            /\ candidates[bestMatchIdx + 1][p] # <<>>
            /\ FieldLabel(IsResource, p) = bestField
            /\ levenshtein(userNorm, candidates[bestMatchIdx + 1][p]) = bestScore

\* A name that normalises to "" found a document through a field that is
\* not empty, past the empty ones.
C30_Witness ==
    /\ pc = "resolved"
    /\ args.aws_name.val = Q_VENDOR
    /\ userNorm = <<>>
    /\ candidates[1][1] = <<>>
    /\ bestMatchIdx = 0
    /\ bestField = <<"heading">>

\* The same name over a document whose only near candidates are empty:
\* nothing is found.
C30_WitnessNotFound ==
    /\ pc = "resolved"
    /\ userNorm = <<>>
    /\ HasEmptyCandidate
    /\ bestMatchIdx = -1

====
